---- MODULE Spec2Model ----
(***************************************************************************)
(* D1 binding vs HTTP benchmark: the D1BenchmarkSimple harness             *)
(* (src/src/benchmark-simple.ts) and the POST /benchmark/run handler       *)
(* (src/src/index.ts).                                                     *)
(*                                                                         *)
(* Numbers.  A JavaScript number is modelled as the IEEE 754 double it is: *)
(* a finite value [k |-> "fin", neg, m, e] standing for (-1)^neg * m * 2^e *)
(* with m odd (or zero) and of at most 53 bits, or one of the non-finite   *)
(* values [k |-> "inf"] and [k |-> "nan"].  Every arithmetic operation     *)
(* computes the exact result and rounds it to nearest, ties to even.       *)
(* Significands are held as sequences of 15-bit limbs, least significant   *)
(* first.  Durations are whole clock ticks of performance.now().           *)
(***************************************************************************)
EXTENDS Integers, Sequences, FiniteSets, Bags, TLC

\* ------------------------------------------------------------------ bounds
MaxIter   == 1   \* largest queryIterations of a run with stray failures
MaxFail   == 1   \* most stray failures of measured operations in one run
MaxSteady == 5   \* largest queryIterations of a run with an outage
MaxUsers  == 4   \* largest userCount of a run
MaxSeed   == 340 \* userCount of a run that seeds in several batches
MaxLat    == 1   \* largest latency of a backend, in clock ticks
MaxReruns == 1   \* SpecRuns: how many later runs one instance makes
MaxHead   == 3   \* SpecStats: how many durations of an input are free
PadStep   == 14  \* SpecStats: zero durations follow them in blocks of this size
MaxPads   == 7   \* SpecStats: how many such blocks at most
MaxDur    == 2   \* SpecStats: largest single duration
MaxStreams == 4  \* SpecStreams: largest concurrency of a load
MaxCalls  == 10  \* SpecStreams: largest iterations of a stream

\* ------------------------------------------------------- program constants
BatchSize    == 100  \* seedData: rows per INSERT statement
WarmupRounds == 5    \* runWarmup: round trips per backend
BulkRows     == 5    \* Bulk INSERT: rows per statement

\* ----------------------------------------------------------------- numbers
\* Natural numbers of any size: limbs of 15 bits, least significant first,
\* without a most significant zero limb; <<>> is 0.
Base == 2 ^ 15

RECURSIVE BigOf(_)
BigOf(n) == IF n = 0 THEN <<>> ELSE <<n % Base>> \o BigOf(n \div Base)

RECURSIVE Trim(_)
Trim(a) ==
    IF a = <<>> THEN a
    ELSE IF a[Len(a)] = 0 THEN Trim(SubSeq(a, 1, Len(a) - 1)) ELSE a

RECURSIVE AddCarry(_, _, _)
AddCarry(a, b, c) ==
    IF a = <<>> /\ b = <<>> THEN (IF c = 0 THEN <<>> ELSE <<c>>)
    ELSE LET x == IF a = <<>> THEN 0 ELSE Head(a)
             y == IF b = <<>> THEN 0 ELSE Head(b)
             t == x + y + c
         IN  <<t % Base>> \o AddCarry(IF a = <<>> THEN a ELSE Tail(a),
                                      IF b = <<>> THEN b ELSE Tail(b),
                                      t \div Base)

BigAdd(a, b) == AddCarry(a, b, 0)

\* a - b - c for a >= b + c, limb by limb
RECURSIVE SubBorrow(_, _, _)
SubBorrow(a, b, c) ==
    IF a = <<>> THEN <<>>
    ELSE LET y == IF b = <<>> THEN 0 ELSE Head(b)
             t == Head(a) - y - c
             rest == IF b = <<>> THEN b ELSE Tail(b)
         IN  IF t < 0 THEN <<t + Base>> \o SubBorrow(Tail(a), rest, 1)
             ELSE <<t>> \o SubBorrow(Tail(a), rest, 0)

BigSub(a, b) == Trim(SubBorrow(a, b, 0))

RECURSIVE CmpFrom(_, _, _)
CmpFrom(a, b, i) ==
    IF i = 0 THEN 0
    ELSE IF a[i] < b[i] THEN -1
    ELSE IF a[i] > b[i] THEN 1
    ELSE CmpFrom(a, b, i - 1)

\* -1, 0 or 1 as a < b, a = b or a > b
BigCmp(a, b) ==
    IF Len(a) < Len(b) THEN -1
    ELSE IF Len(a) > Len(b) THEN 1
    ELSE CmpFrom(a, b, Len(a))

RECURSIVE MulSmallCarry(_, _, _)
MulSmallCarry(a, k, c) ==
    IF a = <<>> THEN (IF c = 0 THEN <<>> ELSE <<c>>)
    ELSE LET t == Head(a) * k + c
         IN  <<t % Base>> \o MulSmallCarry(Tail(a), k, t \div Base)

\* a * k for 0 <= k < Base
BigMulSmall(a, k) == IF k = 0 THEN <<>> ELSE MulSmallCarry(a, k, 0)

RECURSIVE BigMul(_, _)
BigMul(a, b) ==
    IF a = <<>> \/ b = <<>> THEN <<>>
    ELSE LET rest == BigMul(a, Tail(b))
         IN  BigAdd(BigMulSmall(a, Head(b)),
                    IF rest = <<>> THEN rest ELSE <<0>> \o rest)

\* the limbs 1..i of a divided by k, from the most significant, with the
\* remainder r carried in (0 <= r < k < Base)
RECURSIVE DivSmallFrom(_, _, _, _)
DivSmallFrom(a, k, i, r) ==
    IF i = 0 THEN [q |-> <<>>, r |-> r]
    ELSE LET t == r * Base + a[i]
             rest == DivSmallFrom(a, k, i - 1, t % k)
         IN  [q |-> Append(rest.q, t \div k), r |-> rest.r]

\* quotient and remainder of a by k, 0 < k < Base
BigDivSmall(a, k) ==
    LET x == DivSmallFrom(a, k, Len(a), 0)
    IN  [q |-> Trim(x.q), r |-> BigOf(x.r)]

\* a * 2^s and floor(a / 2^s)
ShiftLeft(a, s) ==
    IF a = <<>> THEN a
    ELSE [i \in 1..(s \div 15) |-> 0] \o BigMulSmall(a, 2 ^ (s % 15))

ShiftRight(a, s) ==
    IF s \div 15 >= Len(a) THEN <<>>
    ELSE BigDivSmall(SubSeq(a, s \div 15 + 1, Len(a)), 2 ^ (s % 15)).q

RECURSIVE SmallBits(_)
SmallBits(x) == IF x = 0 THEN 0 ELSE 1 + SmallBits(x \div 2)

\* the number of bits of a
BitLen(a) == IF a = <<>> THEN 0 ELSE 15 * (Len(a) - 1) + SmallBits(a[Len(a)])

RECURSIVE SmallZeros(_)
SmallZeros(x) == IF x % 2 = 1 THEN 0 ELSE 1 + SmallZeros(x \div 2)

\* the number of zero bits below the lowest set bit of a # 0
RECURSIVE TrailingZeros(_)
TrailingZeros(a) ==
    IF Head(a) = 0 THEN 15 + TrailingZeros(Tail(a)) ELSE SmallZeros(Head(a))

\* the largest limb d + x, x below 2^(i+1), with b * (d + x) <= r
RECURSIVE LimbBits(_, _, _, _)
LimbBits(r, b, i, d) ==
    IF i < 0 THEN d
    ELSE IF BigCmp(BigMulSmall(b, d + 2 ^ i), r) <= 0
         THEN LimbBits(r, b, i - 1, d + 2 ^ i)
         ELSE LimbBits(r, b, i - 1, d)

\* the limbs 1..i of a divided by b, from the most significant, with the
\* remainder r carried in (r < b)
RECURSIVE DivLimbs(_, _, _, _)
DivLimbs(a, b, i, r) ==
    IF i = 0 THEN [q |-> <<>>, r |-> r]
    ELSE LET t == Trim(<<a[i]>> \o r)
             d == LimbBits(t, b, 14, 0)
             rest == DivLimbs(a, b, i - 1, BigSub(t, BigMulSmall(b, d)))
         IN  [q |-> Append(rest.q, d), r |-> rest.r]

\* quotient and remainder of a by b # 0
BigDivMod(a, b) ==
    IF Len(b) = 1 THEN BigDivSmall(a, b[1])
    ELSE LET x == DivLimbs(a, b, Len(a), <<>>)
         IN  [q |-> Trim(x.q), r |-> x.r]

\* the largest r with r * r <= a, bit by bit from bit i down
RECURSIVE RootBits(_, _, _)
RootBits(a, i, r) ==
    IF i < 0 THEN r
    ELSE LET c == BigAdd(r, ShiftLeft(<<1>>, i))
         IN  IF BigCmp(BigMul(c, c), a) <= 0
             THEN RootBits(a, i - 1, c)
             ELSE RootBits(a, i - 1, r)

BigRoot(a) == RootBits(a, BitLen(a) \div 2, <<>>)

\* A JavaScript number is an IEEE 754 double: a finite value is
\* (-1)^neg * m * 2^e with m odd and below 2^53 (m = <<>>, e = 0 for 0), and
\* there are Infinity and NaN.  The exponent is not bounded: no value of the
\* model comes near the largest or the smallest double.
Precision == 53

Zero == [k |-> "fin", neg |-> FALSE, m |-> <<>>, e |-> 0]
Infinity == [k |-> "inf", neg |-> FALSE, m |-> <<>>, e |-> 0]
NaN == [k |-> "nan", neg |-> FALSE, m |-> <<>>, e |-> 0]

\* the double m * 2^e for any m below 2^53
Canon(neg, m, e) ==
    IF m = <<>> THEN Zero
    ELSE LET z == TrailingZeros(m)
         IN  [k |-> "fin", neg |-> neg, m |-> ShiftRight(m, z), e |-> e + z]

\* the double nearest to m * 2^e, ties to the even significand; sticky says
\* that the exact value lies above m * 2^e by less than 2^e
Round(neg, m, e, sticky) ==
    IF BitLen(m) <= Precision THEN Canon(neg, m, e)
    ELSE LET sh == BitLen(m) - Precision
             q == ShiftRight(m, sh)
             c == BigCmp(BigSub(m, ShiftLeft(q, sh)), ShiftLeft(<<1>>, sh - 1))
             up == c > 0 \/ (c = 0 /\ (sticky \/ q[1] % 2 = 1))
         IN  Canon(neg, IF up THEN BigAdd(q, <<1>>) ELSE q, e + sh)

\* the integer n as a number
Whole(n) == IF n < 0 THEN Canon(TRUE, BigOf(-n), 0) ELSE Canon(FALSE, BigOf(n), 0)

One == Whole(1)

IsFinite(x) == x.k = "fin"

Negate(x) == IF x.m = <<>> THEN x ELSE [x EXCEPT !.neg = ~x.neg]

\* x > 0 (false for NaN)
JsGtZero(x) == x.k = "inf" \/ (x.k = "fin" /\ x.m # <<>> /\ ~x.neg)

\* x + y on finite numbers
JsAdd(x, y) ==
    IF x.m = <<>> THEN y
    ELSE IF y.m = <<>> THEN x
    ELSE LET e == IF x.e < y.e THEN x.e ELSE y.e
             a == ShiftLeft(x.m, x.e - e)
             b == ShiftLeft(y.m, y.e - e)
         IN  IF x.neg = y.neg THEN Round(x.neg, BigAdd(a, b), e, FALSE)
             ELSE IF BigCmp(a, b) = 0 THEN Zero
             ELSE IF BigCmp(a, b) > 0 THEN Round(x.neg, BigSub(a, b), e, FALSE)
             ELSE Round(y.neg, BigSub(b, a), e, FALSE)

\* x - y on finite numbers
JsSub(x, y) == JsAdd(x, Negate(y))

\* x * y on finite numbers
JsMul(x, y) ==
    IF x.m = <<>> \/ y.m = <<>> THEN Zero
    ELSE Round(x.neg # y.neg, BigMul(x.m, y.m), x.e + y.e, FALSE)

\* x <= y on finite numbers
JsLeq(x, y) == LET d == JsSub(x, y) IN d.m = <<>> \/ d.neg

\* x / y on finite numbers, y # 0: the quotient of the significands is taken
\* with 56 bits at least
Quotient(x, y) ==
    LET s == BitLen(y.m) + 56
        d == BigDivMod(ShiftLeft(x.m, s), y.m)
    IN  Round(x.neg # y.neg, d.q, x.e - y.e - s, d.r # <<>>)

\* the JavaScript x / y on non-negative numbers: a zero divisor gives NaN for
\* 0 / 0 and Infinity otherwise
JsDiv(x, y) ==
    IF x.k = "nan" \/ y.k = "nan" THEN NaN
    ELSE IF x.k = "inf" THEN (IF y.k = "inf" THEN NaN ELSE Infinity)
    ELSE IF y.k = "inf" THEN Zero
    ELSE IF y.m = <<>> THEN (IF x.m = <<>> THEN NaN ELSE Infinity)
    ELSE IF x.m = <<>> THEN Zero
    ELSE Quotient(x, y)

\* the number n / d for integers n and d
Num(n, d) == JsDiv(Whole(n), Whole(d))

\* Math.sqrt on a non-negative finite number: the root of the significand
\* taken with 55 bits at least
JsSqrt(x) ==
    IF x.m = <<>> THEN Zero
    ELSE LET s0 == IF BitLen(x.m) < 110 THEN 110 - BitLen(x.m) ELSE 0
             s == s0 + ((x.e - s0) % 2)
             a == ShiftLeft(x.m, s)
             r == BigRoot(a)
         IN  Round(FALSE, r, (x.e - s) \div 2, BigMul(r, r) # a)

\* ------------------------------------------------------------ calculateStats
\* durations.reduce((sum, d) => sum + d, sum) over the durations lo..hi, in
\* their order
RECURSIVE SumOver(_, _, _, _)
SumOver(durations, lo, hi, sum) ==
    IF lo > hi THEN sum
    ELSE IF lo = hi THEN JsAdd(sum, Whole(durations[lo]))
    ELSE LET mid == (lo + hi) \div 2
             left == SumOver(durations, lo, mid, sum)
         IN  IF IsFinite(left) THEN SumOver(durations, mid + 1, hi, left)
             ELSE left

\* durations.reduce((sum, d) => sum + Math.pow(d - avg, 2), sum) over the
\* durations lo..hi, in their order; Math.pow(x, 2) is taken to be the double
\* nearest to x * x
RECURSIVE SqDevOver(_, _, _, _, _)
SqDevOver(durations, avg, lo, hi, sum) ==
    IF lo > hi THEN sum
    ELSE IF lo = hi
         THEN LET dev == JsSub(Whole(durations[lo]), avg)
              IN  JsAdd(sum, JsMul(dev, dev))
    ELSE LET mid == (lo + hi) \div 2
             left == SqDevOver(durations, avg, lo, mid, sum)
         IN  IF IsFinite(left) THEN SqDevOver(durations, avg, mid + 1, hi, left)
             ELSE left

\* [...durations].sort((a, b) => a - b): a new ascending sequence, built
\* value by value from the least, each value as often as it occurs
RECURSIVE SortFrom(_, _)
SortFrom(vals, s) ==
    IF vals = {} THEN <<>>
    ELSE LET v == CHOOSE x \in vals : \A y \in vals : x <= y
             c == Cardinality({j \in DOMAIN s : s[j] = v})
         IN  [i \in 1..c |-> v] \o SortFrom(vals \ {v}, s)

SortAsc(s) == SortFrom({s[j] : j \in DOMAIN s}, s)

\* sorted[index] of a 0-based index: <<>> models undefined
ElemAt(sorted, index) ==
    IF index >= 0 /\ index < Len(sorted) THEN <<sorted[index + 1]>> ELSE <<>>

\* a || b on numbers: b when a is undefined or 0
OrElse(a, b) == IF a = <<>> \/ a = <<0>> THEN b ELSE a[1]

\* Math.floor(n * 0.95) and Math.floor(n * 0.99)
P95Index(n) == (n * 95) \div 100
P99Index(n) == (n * 99) \div 100

\* median of the sorted sequence
Median(sorted) ==
    LET n == Len(sorted)
    IN  IF n % 2 = 0
        THEN JsDiv(JsAdd(Whole(sorted[n \div 2]), Whole(sorted[n \div 2 + 1])),
                   Whole(2))
        ELSE Whole(sorted[n \div 2 + 1])

\* what the arithmetic gives for no duration: 0 / 0
EmptyStatsNaN ==
    [avg |-> NaN, median |-> NaN, p95 |-> NaN, p99 |-> NaN, min |-> NaN,
     max |-> NaN, stdDev |-> NaN]

\* the record returned for durations.length === 0
EmptyStats ==
    [avg |-> Zero, median |-> Zero, p95 |-> Zero, p99 |-> Zero, min |-> Zero,
     max |-> Zero, stdDev |-> Zero]

calculateStats(durations) ==
    IF Len(durations) = 0
    THEN EmptyStats
    ELSE LET sorted == SortAsc(durations)
             n == Len(sorted)
             last == sorted[n]
             avg == JsDiv(SumOver(durations, 1, n, Zero), Whole(n))
             variance == JsDiv(SqDevOver(durations, avg, 1, n, Zero), Whole(n))
         IN  [avg |-> avg,
              median |-> Median(sorted),
              p95 |-> Whole(OrElse(ElemAt(sorted, P95Index(n)), last)),
              p99 |-> Whole(OrElse(ElemAt(sorted, P99Index(n)), last)),
              min |-> Whole(sorted[1]),
              max |-> Whole(last),
              stdDev |-> JsSqrt(variance)]

\* ------------------------------------------------------------- the samples
Approaches == {"binding", "http"}

\* the six query types of runQueryBenchmarks, in the order of its loops
QueryTypes ==
    <<"Simple SELECT", "Filtered SELECT", "JOIN Operations", "Aggregation",
      "Bulk INSERT", "Bulk SELECT">>

\* the operation label prefix of each query type
OperationNames ==
    <<"simple_select", "filtered_select", "join_query", "aggregation",
      "bulk_insert", "bulk_select">>

\* an optional field: <<>> when absent, <<v>> when present
Absent == <<>>
Some(v) == <<v>>

\* the decimal digits of a natural number
RECURSIVE Digits(_)
Digits(n) ==
    LET digit == <<"0", "1", "2", "3", "4", "5", "6", "7", "8", "9">>
    IN  IF n < 10 THEN <<digit[n + 1]>>
        ELSE Append(Digits(n \div 10), digit[(n % 10) + 1])

\* the values a backend call rejects with: an Error object, or a value that
\* is not an Error (a status number)
Errors ==
    {[isError |-> TRUE, message |-> <<"D1_ERROR">>, value |-> 0],
     [isError |-> FALSE, message |-> <<>>, value |-> 503]}

\* error.message whatever was thrown
MessageOnly(error) == error.message

\* error instanceof Error ? error.message : String(error)
ErrorText(error) ==
    IF error.isError THEN error.message ELSE Digits(error.value)

\* the durations of a sequence of records (r => r.duration)
DurationsOf(records) == [i \in DOMAIN records |-> records[i].duration]

\* ------------------------------------------------------------ generateReport
\* the filter without its test of r.success
AnyOutcome(log, approach) ==
    SelectSeq(log, LAMBDA r : r.approach = approach)

Successful(log, approach) ==
    SelectSeq(log, LAMBDA r : r.approach = approach /\ r.success)

Attempted(log, approach) ==
    SelectSeq(log, LAMBDA r : r.approach = approach)

SuccessfulForType(log, queryType, approach) ==
    SelectSeq(log, LAMBDA r :
        r.queryType = queryType /\ r.approach = approach /\ r.success)

AttemptedForType(log, queryType, approach) ==
    SelectSeq(log, LAMBDA r : r.queryType = queryType /\ r.approach = approach)

\* the rate without the test for zero attempts
SuccessRateUnguarded(log, approach) ==
    JsDiv(Whole(Len(Successful(log, approach))),
          Whole(Len(Attempted(log, approach))))

\* bindingSuccessRate, httpSuccessRate
SuccessRate(log, approach) ==
    IF Len(Attempted(log, approach)) > 0
    THEN Num(Len(Successful(log, approach)), Len(Attempted(log, approach)))
    ELSE Zero

\* httpStat > 0 ? httpStat / bindingStat : 0
Speedup(httpStat, bindingStat) ==
    IF JsGtZero(httpStat) THEN JsDiv(httpStat, bindingStat) ELSE Zero

\* { ...stats, totalOperations, successRate }
WithCounts(st, totalOperations, successRate) ==
    [avg |-> st.avg, median |-> st.median, p95 |-> st.p95, p99 |-> st.p99,
     min |-> st.min, max |-> st.max, stdDev |-> st.stdDev,
     totalOperations |-> totalOperations, successRate |-> successRate]

\* an entry for every query type of the log
ReportedTypesAll(log) == {log[i].queryType : i \in DOMAIN log}

\* an entry for every query type with a successful sample of a backend
ReportedTypesEither(log) ==
    {qt \in {log[i].queryType : i \in DOMAIN log} :
        \/ Len(SelectSeq(log, LAMBDA r :
                r.queryType = qt /\ r.approach = "binding" /\ r.success)) > 0
        \/ Len(SelectSeq(log, LAMBDA r :
                r.queryType = qt /\ r.approach = "http" /\ r.success)) > 0}

\* the query types that get an entry of queryTypeResults
ReportedTypes(log) ==
    {qt \in {log[i].queryType : i \in DOMAIN log} :
        /\ Len(SuccessfulForType(log, qt, "binding")) > 0
        /\ Len(SuccessfulForType(log, qt, "http")) > 0}

\* one entry of queryTypeResults; the statistics of each backend are
\* computed once and then read
TypeEntry(log, qt) ==
    LET bindingForType == SuccessfulForType(log, qt, "binding")
        httpForType == SuccessfulForType(log, qt, "http")
    IN  CHOOSE entry \in
            {[binding |->
                 WithCounts(bindingStatsForType, Len(bindingForType),
                     JsDiv(Whole(Len(bindingForType)),
                           Whole(Len(AttemptedForType(log, qt, "binding"))))),
              http |->
                 WithCounts(httpStatsForType, Len(httpForType),
                     JsDiv(Whole(Len(httpForType)),
                           Whole(Len(AttemptedForType(log, qt, "http"))))),
              speedup |-> Speedup(httpStatsForType.avg, bindingStatsForType.avg)] :
                bindingStatsForType \in {calculateStats(DurationsOf(bindingForType))},
                httpStatsForType \in {calculateStats(DurationsOf(httpForType))}} :
            TRUE

\* the report; the statistics of each backend are computed once and then read
generateReport(log) ==
    CHOOSE report \in
        {[results |-> log,
          queryTypeResults |-> [qt \in ReportedTypes(log) |-> TypeEntry(log, qt)],
          summary |->
             [binding |-> WithCounts(bindingStats,
                             Len(Attempted(log, "binding")),
                             SuccessRate(log, "binding")),
              http |-> WithCounts(httpStats,
                             Len(Attempted(log, "http")),
                             SuccessRate(log, "http")),
              speedupFactor |-> Speedup(httpStats.avg, bindingStats.avg),
              medianSpeedup |-> Speedup(httpStats.median, bindingStats.median),
              p95Speedup |-> Speedup(httpStats.p95, bindingStats.p95)]] :
            bindingStats \in {calculateStats(DurationsOf(Successful(log, "binding")))},
            httpStats \in {calculateStats(DurationsOf(Successful(log, "http")))}} :
        TRUE

\* ---------------------------------------------------------------- the store
Min(a, b) == IF a < b THEN a ELSE b

EmptyStore == [users |-> {}, sessions |-> {}]

\* rows left by an earlier use of the database
StaleStore ==
    [users |-> {[src |-> "old", n |-> 0]},
     sessions |-> {[id |-> [src |-> "old", n |-> 0],
                    userId |-> [src |-> "old", n |-> 0]]}]

\* the row user_<j> of seedData and its columns
SeedUser(j) == [src |-> "user", n |-> j]
SeedSession(j) == [id |-> [src |-> "session", n |-> j], userId |-> SeedUser(j)]

\* the rows of one Bulk INSERT of iteration i: bulk_<ts>_k and bulk_http_<ts>_k
BulkUsers(approach, i) ==
    {[src |-> (IF approach = "binding" THEN "bulk" ELSE "bulk_http"),
      n |-> i * BulkRows + k] : k \in 0..(BulkRows - 1)}

emailVerified(u) ==
    IF u.src = "user" THEN u.n % 3 = 0 ELSE (u.n % BulkRows) \in {1, 3}
isAnonymous(u) == u.src = "user" /\ u.n % 10 = 0

\* a cleaning that deletes the users before the sessions that name them
CleanUsersFirst ==
    <<[op |-> "deleteUsers", approach |-> "binding", from |-> 0, to |-> 0],
      [op |-> "deleteSessions", approach |-> "binding", from |-> 0, to |-> 0]>>

\* a cleaning that leaves the users table alone
CleanSessionsOnly ==
    <<[op |-> "deleteSessions", approach |-> "binding", from |-> 0, to |-> 0]>>

\* cleanDatabase: DELETE FROM sessions, then DELETE FROM users
CleanPlan ==
    <<[op |-> "deleteSessions", approach |-> "binding", from |-> 0, to |-> 0],
      [op |-> "deleteUsers", approach |-> "binding", from |-> 0, to |-> 0]>>

\* a seeding loop that sends all its rows in one INSERT
OneStatement(op, count) ==
    [b \in 1..Min(count, 1) |->
        [op |-> op, approach |-> "binding", from |-> 0, to |-> count]]

\* the INSERT statements of one seeding loop: for (i = 0; i < count; i += 100),
\* each sent through this.dbBinding
Batches(op, count) ==
    [b \in 1..((count + BatchSize - 1) \div BatchSize) |->
        [op |-> op, approach |-> "binding", from |-> (b - 1) * BatchSize,
         to |-> Min((b - 1) * BatchSize + BatchSize, count)]]

\* Math.floor(userCount * 0.3)
SessionCount(count) == (count * 3) \div 10

\* the statements seedData(count) sends, in order
SeedPlan(count) ==
    CleanPlan \o Batches("insertUsers", count)
              \o Batches("insertSessions", SessionCount(count))

\* the store after a statement has been executed
Execute(stmt, st) ==
    CASE stmt.op = "deleteSessions" -> [st EXCEPT !.sessions = {}]
      [] stmt.op = "deleteUsers" -> [st EXCEPT !.users = {}]
      [] stmt.op = "insertUsers" ->
            [st EXCEPT !.users = @ \cup {SeedUser(j) : j \in stmt.from..(stmt.to - 1)}]
      [] stmt.op = "insertSessions" ->
            [st EXCEPT !.sessions =
                @ \cup {SeedSession(j) : j \in stmt.from..(stmt.to - 1)}]

\* ------------------------------------------------------- runQueryBenchmarks
\* an iteration that measures http before the binding
QueryCallHttpFirst(k, n) ==
    LET t == k \div (2 * n) + 1
        i == (k % (2 * n)) \div 2
    IN  [operation |-> <<OperationNames[t], i>>,
         queryType |-> QueryTypes[t],
         sqlQuery |-> t,
         approach |-> IF k % 2 = 0 THEN "http" ELSE "binding",
         iteration |-> i]

\* the second call of an iteration going to the binding as well
QueryCallBindingTwice(k, n) ==
    LET t == k \div (2 * n) + 1
        i == (k % (2 * n)) \div 2
    IN  [operation |-> <<OperationNames[t], i>>,
         queryType |-> QueryTypes[t],
         sqlQuery |-> t,
         approach |-> "binding",
         iteration |-> i]

\* the k-th measured call (k = 0, 1, ...) of runQueryBenchmarks(n): six loops
\* of n iterations, each iteration the binding call and then the http call
QueryCall(k, n) ==
    LET t == k \div (2 * n) + 1
        i == (k % (2 * n)) \div 2
    IN  [operation |-> <<OperationNames[t], i>>,
         queryType |-> QueryTypes[t],
         sqlQuery |-> t,
         approach |-> IF k % 2 = 0 THEN "binding" ELSE "http",
         iteration |-> i]

\* the number of measured calls of runQueryBenchmarks(n)
QueryCalls(n) == Len(QueryTypes) * n * 2

\* what a backend resolves with: the rows of a SELECT (an array), or the
\* acknowledgment of an INSERT (an object with a changes count)
BackendResult(call, st) ==
    LET rows(c) == [isArray |-> TRUE, length |-> c, hasChanges |-> FALSE, changes |-> 0]
        joined == {x \in st.sessions : x.userId \in st.users}
    IN  CASE call.queryType = "Simple SELECT" -> rows(Min(20, Cardinality(st.users)))
          [] call.queryType = "Filtered SELECT" ->
                rows(Min(30, Cardinality({u \in st.users :
                                            emailVerified(u) /\ ~isAnonymous(u)})))
          [] call.queryType = "JOIN Operations" -> rows(Min(25, Cardinality(joined)))
          [] call.queryType = "Aggregation" ->
                rows(Cardinality({isAnonymous(u) : u \in st.users}))
          [] call.queryType = "Bulk INSERT" ->
                [isArray |-> FALSE, length |-> 0, hasChanges |-> TRUE,
                 changes |-> BulkRows]
          [] call.queryType = "Bulk SELECT" -> rows(Min(200, Cardinality(st.users)))

\* the store after a measured call has succeeded
Effect(call, st) ==
    IF call.queryType = "Bulk INSERT"
    THEN [st EXCEPT !.users = @ \cup BulkUsers(call.approach, call.iteration)]
    ELSE st

\* -------------------------------------------------------------- measureTime
\* performance.now() - start
Elapsed(startTime, endTime) == endTime - startTime

\* Array.isArray(result) ? result.length : "changes" in result ? result.changes
RecordsAffected(result) ==
    IF result.isArray THEN Some(result.length)
    ELSE IF result.hasChanges THEN Some(result.changes)
    ELSE Absent

\* the record of the try branch
SuccessRecord(call, duration, result) ==
    [operation |-> call.operation, queryType |-> call.queryType,
     sqlQuery |-> call.sqlQuery, approach |-> call.approach,
     duration |-> duration, recordsAffected |-> RecordsAffected(result),
     success |-> TRUE, error |-> Absent]

\* a catch branch that keeps an affected-record count
FailureRecordCounted(call, duration, error) ==
    [operation |-> call.operation, queryType |-> call.queryType,
     sqlQuery |-> call.sqlQuery, approach |-> call.approach,
     duration |-> duration, recordsAffected |-> Some(0),
     success |-> FALSE, error |-> Some(ErrorText(error))]

\* the record of the catch branch
FailureRecord(call, duration, error) ==
    [operation |-> call.operation, queryType |-> call.queryType,
     sqlQuery |-> call.sqlQuery, approach |-> call.approach,
     duration |-> duration, recordsAffected |-> Absent,
     success |-> FALSE, error |-> Some(ErrorText(error))]

\* a push that writes over the last sample instead of appending
PushOverLast(log, record) ==
    IF log = <<>> THEN <<record>> ELSE [log EXCEPT ![Len(log)] = record]

\* a push that records the sample twice
PushTwice(log, record) == Append(Append(log, record), record)

\* this.results.push(benchmarkResult)
Push(log, record) == Append(log, record)

\* ------------------------------------------------------------------- state
VARIABLES
    phase,            \* where runFullBenchmark is, or where it stopped:
                      \* Idle, Warmup, Seeding, QuerySuites, Cleanup, Reported
    step,             \* the index of the next backend call of the phase
    awaiting,         \* a backend call is in flight
    userCount,        \* the request's userCount
    queryIterations,  \* the request's queryIterations
    fault,            \* the value a failing backend call rejects with
    lat,              \* the latency of each backend's calls, in clock ticks
    down,             \* the query shapes that fail on every attempt
    flap,             \* the query shapes that fail on their first attempt only
    budget,           \* how many other measured operations may fail
    now,              \* performance.now()
    start,            \* measureTime's start of the call in flight
    results,          \* this.results, the sample log
    invocations,      \* how many times measureTime has invoked its fn
    store,            \* the users and sessions rows of the database
    outcome,          \* the promise of runFullBenchmark
    response,         \* the response of POST /benchmark/run
    durations,        \* SpecStats: the argument of calculateStats
    stats,            \* SpecStats: what calculateStats returned
    reruns,           \* SpecRuns: the later runs started on the instance
    again,            \* SpecRuns: the report of a later generateReport()
    load,             \* SpecStreams: the concurrent load being driven
    streams,          \* SpecStreams: the bag of the load's streams
    kept,             \* SpecHeld: the report a caller keeps, as it reads it
    runs,             \* SpecOverlap: the two runs that overlap
    logs              \* SpecOverlap: this.results of each instance

\* the variables of the scenarios with a kept report or with two runs
sideVars == <<kept, runs, logs>>

\* the request and the behaviour of the two backends during the run
envVars == <<userCount, queryIterations, fault, lat, down, flap, budget>>

vars ==
    <<phase, step, awaiting, envVars, now, start, results, invocations, store,
      outcome, response, durations, stats, reruns, again, load, streams, sideVars>>

runVars ==
    <<phase, step, awaiting, envVars, now, start, results, invocations, store,
      outcome, response, reruns, again, load, streams, sideVars>>

Pending == [kind |-> "pending", report |-> Absent, error |-> Absent]

\* the requests of the model: the scale and the iteration count vary one at
\* a time, and one request seeds more rows than a batch holds
RunInputs ==
    {<<u, 0>> : u \in 0..MaxUsers}
    \cup {<<MaxUsers, q>> : q \in 1..MaxIter}
    \cup {<<MaxSeed, 0>>}

\* a query shape: one query type sent through one backend
Shape(queryType, approach) == [queryType |-> queryType, approach |-> approach]

\* the outages of the model: none, one query shape that always fails, or a
\* backend that fails on every query
OutagePlans ==
    {{}}
    \cup {{Shape(QueryTypes[t], a)} : t \in DOMAIN QueryTypes, a \in Approaches}
    \cup {{Shape(QueryTypes[t], a) : t \in DOMAIN QueryTypes} : a \in Approaches}

\* the glitches of the model: one query shape fails on its first attempt and
\* succeeds afterwards
Glitches ==
    {{Shape(QueryTypes[t], a)} : t \in DOMAIN QueryTypes, a \in Approaches}

\* before the request: no run has started, the instance's log is empty
Fresh ==
    /\ phase = "Idle"
    /\ step = 0
    /\ awaiting = FALSE
    /\ now = 0
    /\ start = 0
    /\ results = <<>>
    /\ invocations = 0
    /\ outcome = Pending
    /\ response = Absent
    /\ reruns = 0
    /\ again = Absent
    /\ load = Absent
    /\ streams = EmptyBag
    /\ kept = Absent
    /\ runs = <<>>
    /\ logs = <<>>

\* The backends of a run behave in one of three ways: up to MaxFail measured
\* operations fail, any of them (a run of at most MaxIter iterations), or the
\* query shapes of an outage fail on every attempt and no other measured
\* operation does (a run of at most MaxSteady iterations), or one query shape
\* fails on its first attempt only (a run of MaxIter + 1 iterations).  A call of the
\* warmup, of seeding or of cleaning may fail in both.
Init ==
    /\ Fresh
    /\ \/ /\ \E input \in RunInputs :
                userCount = input[1] /\ queryIterations = input[2]
          /\ down = {}
          /\ flap = {}
          /\ budget = MaxFail
       \/ /\ userCount = MaxUsers
          /\ queryIterations \in 1..MaxSteady
          /\ down \in OutagePlans
          /\ flap = {}
          /\ budget = 0
       \/ /\ userCount = MaxUsers
          /\ queryIterations = MaxIter + 1
          /\ down = {}
          /\ flap \in Glitches
          /\ budget = 0
    /\ fault \in Errors
    /\ lat \in [Approaches -> 0..MaxLat]
    /\ store \in {EmptyStore, StaleStore}
    /\ durations = <<>>
    /\ stats = Absent

\* the phases of runFullBenchmark, in the order of its awaits
Phases == <<"Idle", "Warmup", "Seeding", "QuerySuites", "Cleanup", "Reported">>

PhaseIndex(p) == CHOOSE i \in DOMAIN Phases : Phases[i] = p

\* runFullBenchmark going past the step that follows
SkipPhase(p) ==
    IF PhaseIndex(p) + 2 <= Len(Phases) THEN Phases[PhaseIndex(p) + 2]
    ELSE Phases[Len(Phases)]

\* the step of runFullBenchmark that follows the one it has completed
NextPhase(p) == Phases[PhaseIndex(p) + 1]

\* runFullBenchmark going on without clearing the log
KeepResults == results

\* this.results = []
clearResults == <<>>

\* runFullBenchmark has not settled
Running == outcome.kind = "pending"

\* a rejected await that is swallowed: the phase sends the statement again
Retry ==
    /\ phase' = phase
    /\ awaiting' = FALSE
    /\ outcome' = outcome

\* a rejected await outside measureTime: runFullBenchmark rejects in the
\* phase it is in
Throw ==
    /\ phase' = phase
    /\ awaiting' = FALSE
    /\ outcome' = [kind |-> "rejected", report |-> Absent, error |-> Some(fault)]

\* POST /benchmark/run reads the body, constructs the instance and calls
\* runFullBenchmark, which clears the log and starts the warmup
Request ==
    /\ phase = "Idle"
    /\ results' = clearResults
    /\ phase' = NextPhase(phase)
    /\ step' = 0
    /\ UNCHANGED <<awaiting, envVars, now, start,
                   invocations, store, outcome, response, durations, stats, reruns, again, load, streams, sideVars>>

\* a backend call that gets a record although it is made outside measureTime
Recorded(log) ==
    Append(log, [operation |-> <<"setup", 0>>, queryType |-> "Setup",
                 sqlQuery |-> 0, approach |-> "binding", duration |-> 0,
                 recordsAffected |-> Absent, success |-> TRUE, error |-> Absent])

\* this.results after a backend call of runWarmup, seedData or cleanDatabase
\* has settled: the call is awaited directly, not through measureTime
Unmeasured(log) == log

\* runWarmup sends SELECT 1: the binding on even steps, http on odd ones
WarmupApproach(k) == IF k % 2 = 0 THEN "binding" ELSE "http"

WarmupCall ==
    /\ phase = "Warmup"
    /\ Running
    /\ ~awaiting
    /\ step < 2 * WarmupRounds
    /\ awaiting' = TRUE
    /\ UNCHANGED <<phase, step, envVars, now, start,
                   results, invocations, store, outcome, response, durations,
                   stats, reruns, again, load, streams, sideVars>>

\* the SELECT 1 settles: the loop goes on, and seedData starts after the last
WarmupSettle ==
    /\ phase = "Warmup"
    /\ awaiting
    /\ now' = now + lat[WarmupApproach(step)]  \* the call's time in flight
    /\ \/ /\ awaiting' = FALSE
          /\ IF step + 1 = 2 * WarmupRounds
             THEN phase' = NextPhase(phase) /\ step' = 0
             ELSE phase' = phase /\ step' = step + 1
          /\ UNCHANGED outcome
       \/ Throw /\ UNCHANGED step
    /\ results' = Unmeasured(results)
    /\ UNCHANGED <<envVars, start,
                   invocations, store, response, durations, stats, reruns, again, load, streams, sideVars>>

\* seedData sends its next statement through the binding
SeedCall ==
    /\ phase = "Seeding"
    /\ Running
    /\ ~awaiting
    /\ step < Len(SeedPlan(userCount))
    /\ awaiting' = TRUE
    /\ UNCHANGED <<phase, step, envVars, now, start,
                   results, invocations, store, outcome, response, durations,
                   stats, reruns, again, load, streams, sideVars>>

\* the statement settles: executed, or rejected and seedData throws
SeedSettle ==
    /\ phase = "Seeding"
    /\ awaiting
    /\ now' = now + lat[SeedPlan(userCount)[step + 1].approach]
    /\ \/ /\ awaiting' = FALSE
          /\ store' = Execute(SeedPlan(userCount)[step + 1], store)
          /\ IF step + 1 = Len(SeedPlan(userCount))
             THEN phase' = NextPhase(phase) /\ step' = 0
             ELSE phase' = phase /\ step' = step + 1
          /\ UNCHANGED outcome
       \/ Throw /\ UNCHANGED <<step, store>>
    /\ results' = Unmeasured(results)
    /\ UNCHANGED <<envVars, start,
                   invocations, response, durations, stats, reruns, again, load, streams, sideVars>>

\* measureTime takes the start time and invokes fn
MeasureCall ==
    /\ phase = "QuerySuites"
    /\ Running
    /\ ~awaiting
    /\ step < QueryCalls(queryIterations)
    /\ start' = now
    /\ invocations' = invocations + 1
    /\ awaiting' = TRUE
    /\ UNCHANGED <<phase, step, envVars, now,
                   results, store, outcome, response, durations, stats, reruns, again, load, streams, sideVars>>

\* the call's query shape is one of the outage
IsDown(call) ==
    \/ Shape(call.queryType, call.approach) \in down
    \/ Shape(call.queryType, call.approach) \in flap /\ call.operation[2] = 0

\* the failures recorded so far that no outage accounts for
Strays == Len(SelectSeq(results, LAMBDA r : ~r.success /\ ~IsDown(r)))

\* fn settles: measureTime pushes the record of the try branch or of the
\* catch branch and returns it
MeasureSettle ==
    /\ phase = "QuerySuites"
    /\ awaiting
    /\ now' = now + lat[QueryCall(step, queryIterations).approach]
    /\ LET call == QueryCall(step, queryIterations)
       IN  \/ /\ ~IsDown(call)
              /\ results' = Push(results,
                     SuccessRecord(call, Elapsed(start, now'),
                                   BackendResult(call, store)))
              /\ store' = Effect(call, store)
           \/ /\ IsDown(call) \/ Strays < budget
              /\ results' = Push(results,
                     FailureRecord(call, Elapsed(start, now'), fault))
              /\ UNCHANGED store
    /\ awaiting' = FALSE
    /\ step' = step + 1
    /\ UNCHANGED <<phase, envVars, start,
                   invocations, outcome, response, durations, stats, reruns, again, load, streams, sideVars>>

\* runQueryBenchmarks returns after its last loop
QueriesReturn ==
    /\ phase = "QuerySuites"
    /\ Running
    /\ ~awaiting
    /\ step = QueryCalls(queryIterations)
    /\ phase' = NextPhase(phase)
    /\ step' = 0
    /\ UNCHANGED <<awaiting, envVars, now, start,
                   results, invocations, store, outcome, response, durations,
                   stats, reruns, again, load, streams, sideVars>>

\* cleanDatabase sends its next DELETE through the binding
CleanupCall ==
    /\ phase = "Cleanup"
    /\ Running
    /\ ~awaiting
    /\ step < Len(CleanPlan)
    /\ awaiting' = TRUE
    /\ UNCHANGED <<phase, step, envVars, now, start,
                   results, invocations, store, outcome, response, durations,
                   stats, reruns, again, load, streams, sideVars>>

\* the log were generateReport() to take the records out of it
ConsumedByReport(log) == <<>>

\* this.results after generateReport() has returned: the method filters and
\* maps into new arrays and assigns nothing
AfterReport(log) == log

\* the DELETE settles: rejected, and the run rejects, or executed, and after
\* the last one runFullBenchmark returns generateReport()
CleanupSettle ==
    /\ phase = "Cleanup"
    /\ awaiting
    /\ now' = now + lat[CleanPlan[step + 1].approach]
    /\ \/ Throw /\ results' = Unmeasured(results) /\ UNCHANGED <<step, store>>
       \/ /\ awaiting' = FALSE
          /\ store' = Execute(CleanPlan[step + 1], store)
          /\ step' = step + 1
          /\ IF step + 1 = Len(CleanPlan)
             THEN /\ phase' = NextPhase(phase)
                  /\ outcome' = [kind |-> "resolved",
                                 report |-> Some(generateReport(results)),
                                 error |-> Absent]
                  /\ results' = AfterReport(Unmeasured(results))
             ELSE /\ results' = Unmeasured(results)
                  /\ UNCHANGED <<phase, outcome>>
    /\ UNCHANGED <<envVars, start,
                   invocations, response, durations, stats, reruns, again, load, streams, sideVars>>

\* the catch answering without its status argument
ResponseStatusOk(result) ==
    IF result.kind = "resolved"
    THEN [status |-> 200, success |-> TRUE, report |-> result.report,
          error |-> Absent]
    ELSE [status |-> 200, success |-> FALSE, report |-> Absent,
          error |-> Some(ErrorText(result.error[1]))]

\* the handler's c.json(...): 200 with the report, or 500 from its catch
ResponseOf(result) ==
    IF result.kind = "resolved"
    THEN [status |-> 200, success |-> TRUE, report |-> result.report,
          error |-> Absent]
    ELSE [status |-> 500, success |-> FALSE, report |-> Absent,
          error |-> Some(ErrorText(result.error[1]))]

\* POST /benchmark/run answers once runFullBenchmark has settled
Respond ==
    /\ outcome.kind # "pending"
    /\ response = Absent
    /\ response' = Some(ResponseOf(outcome))
    /\ UNCHANGED <<phase, step, awaiting, envVars, now, start, results, invocations, store, outcome, durations,
                   stats, reruns, again, load, streams, sideVars>>

Next ==
    \/ Request
    \/ WarmupCall
    \/ WarmupSettle
    \/ SeedCall
    \/ SeedSettle
    \/ MeasureCall
    \/ MeasureSettle
    \/ QueriesReturn
    \/ CleanupCall
    \/ CleanupSettle
    \/ Respond

Spec == Init /\ [][Next]_vars

\* SpecLive: the run under the scheduling the code relies on.  A continuation
\* that can run does run (the event loop), and a backend call in flight
\* settles, by resolving or by rejecting (the premise that no call hangs).
\* Nothing obliges a client to send the request or to read the answer.
RunStep ==
    \/ WarmupCall
    \/ WarmupSettle
    \/ SeedCall
    \/ SeedSettle
    \/ MeasureCall
    \/ MeasureSettle
    \/ QueriesReturn
    \/ CleanupCall
    \/ CleanupSettle

\* the runs of SpecLive: at most MaxIter iterations, up to MaxFail failing
\* measured operations, and any call outside measureTime may reject
InitLive ==
    /\ Fresh
    /\ userCount = MaxUsers
    /\ queryIterations \in 0..MaxIter
    /\ down = {}
    /\ flap = {}
    /\ budget = MaxFail
    /\ fault \in Errors
    /\ lat = [a \in Approaches |-> IF a = "http" THEN MaxLat ELSE 0]
    /\ store = EmptyStore
    /\ durations = <<>>
    /\ stats = Absent

SpecLive == InitLive /\ [][Next]_vars /\ WF_vars(RunStep)

\* ------------------------------------------------- calculateStats on its own
\* SpecStats applies calculateStats to every sequence of at most MaxHead
\* durations drawn from 0..MaxDur, in every order, and to the sequences of
\* MaxHead such durations followed by at most MaxPads blocks of PadStep
\* durations of 0 ms, the samples of calls that settled within one clock tick.
InitStats ==
    /\ Fresh
    /\ userCount = 0
    /\ queryIterations = 0
    /\ fault = CHOOSE e \in Errors : e.isError
    /\ lat = [a \in Approaches |-> 0]
    /\ down = {}
    /\ flap = {}
    /\ budget = 0
    /\ store = EmptyStore
    /\ durations = <<>>
    /\ stats = Absent

\* one more duration in the argument
PushDuration ==
    /\ Len(durations) < MaxHead
    /\ \E d \in 0..MaxDur : durations' = Append(durations, d)
    /\ stats' = Absent
    /\ UNCHANGED runVars

\* one more block of durations of 0 ms in the argument
PushZeros ==
    /\ Len(durations) >= MaxHead
    /\ Len(durations) < MaxHead + PadStep * MaxPads
    /\ durations' = durations \o [i \in 1..PadStep |-> 0]
    /\ stats' = Absent
    /\ UNCHANGED runVars

\* const stats = this.calculateStats(durations)
ComputeStats ==
    /\ stats = Absent
    /\ stats' = Some(calculateStats(durations))
    /\ UNCHANGED durations
    /\ UNCHANGED runVars

NextStats == PushDuration \/ PushZeros \/ ComputeStats

SpecStats == InitStats /\ [][NextStats]_vars

\* ------------------------------------------- several runs on one instance
\* SpecRuns is a caller that keeps one instance: once a run has returned its
\* report it may call generateReport() again and may start the next run.  The
\* query shapes of an outage fail on every attempt; no handler answers.
InitRuns ==
    /\ Fresh
    /\ userCount = MaxUsers
    /\ queryIterations \in 0..MaxIter
    /\ down \in OutagePlans
    /\ flap = {}
    /\ budget = 0
    /\ fault = CHOOSE e \in Errors : e.isError
    /\ lat \in [Approaches -> 0..MaxLat]
    /\ store = EmptyStore
    /\ durations = <<>>
    /\ stats = Absent

\* a later call of generateReport() on the instance
ReportAgain ==
    /\ outcome.kind = "resolved"
    /\ again = Absent
    /\ again' = Some(generateReport(results))
    /\ results' = AfterReport(results)
    /\ UNCHANGED <<phase, step, awaiting, envVars, now, start, invocations,
                   store, outcome, response, durations, stats, reruns, load,
                   streams, sideVars>>

\* a kept report once the instance has assigned a new array to this.results:
\* its results field is the array it was returned with
Unshared(k) ==
    IF k = Absent THEN Absent ELSE Some([k[1] EXCEPT !.shared = FALSE])

\* the next runFullBenchmark on the instance: it clears the log and starts
\* the warmup
Rerun ==
    /\ outcome.kind = "resolved"
    /\ phase = "Reported"
    /\ reruns < MaxReruns
    /\ reruns' = reruns + 1
    /\ \E n \in 0..MaxIter : queryIterations' = n
    /\ results' = clearResults
    /\ phase' = "Warmup"
    /\ step' = 0
    /\ outcome' = Pending
    /\ again' = Absent
    /\ kept' = Unshared(kept)
    /\ UNCHANGED <<awaiting, userCount, fault, lat, down, flap, budget, now, start,
                   invocations, store, response, durations, stats, load, streams,
                   runs, logs>>

NextRuns ==
    \/ Request
    \/ WarmupCall
    \/ WarmupSettle
    \/ SeedCall
    \/ SeedSettle
    \/ MeasureCall
    \/ MeasureSettle
    \/ QueriesReturn
    \/ CleanupCall
    \/ CleanupSettle
    \/ ReportAgain
    \/ Rerun

SpecRuns == InitRuns /\ [][NextRuns]_vars

\* ----------------------------------------------- a report kept by its caller
\* generateReport returns { results: this.results, ... }: the results field
\* of a report is the array the instance appends to, until the instance
\* assigns a new array to this.results.  SpecHeld follows the report of a run
\* in the hands of its caller while the caller goes on using the instance: it
\* may call clearResults(), runQueryBenchmarks(n) or runFullBenchmark again,
\* MaxReruns times in all.  `kept` is the report as the caller reads it, with
\* `shared` telling whether its results field still is this.results.
InitHeld ==
    /\ Fresh
    /\ userCount = MaxUsers
    /\ queryIterations \in 0..MaxIter
    /\ down \in OutagePlans
    /\ flap = {}
    /\ budget = 0
    /\ fault = CHOOSE e \in Errors : e.isError
    /\ lat \in [Approaches -> 0..MaxLat]
    /\ store = EmptyStore
    /\ durations = <<>>
    /\ stats = Absent

\* a kept report after a push to this.results: the record shows in its results
\* field if that field is the same array
Seen(k, log) ==
    IF k # Absent /\ k[1].shared
    THEN Some([k[1] EXCEPT !.report.results = log])
    ELSE k

\* the caller of runFullBenchmark receives the report
Hold ==
    /\ outcome.kind = "resolved"
    /\ kept = Absent
    /\ kept' = Some([report |-> outcome.report[1], shared |-> TRUE])
    /\ UNCHANGED <<phase, step, awaiting, envVars, now, start, results, invocations,
                   store, outcome, response, durations, stats, reruns, again, load,
                   streams, runs, logs>>

\* the caller calls clearResults()
ClearAgain ==
    /\ kept # Absent
    /\ phase = "Reported"
    /\ reruns < MaxReruns
    /\ reruns' = reruns + 1
    /\ results' = clearResults
    /\ kept' = Unshared(kept)
    /\ UNCHANGED <<phase, step, awaiting, envVars, now, start, invocations, store,
                   outcome, response, durations, stats, again, load, streams, runs,
                   logs>>

\* the caller calls runQueryBenchmarks(n)
QueriesAgain ==
    /\ kept # Absent
    /\ phase = "Reported"
    /\ reruns < MaxReruns
    /\ reruns' = reruns + 1
    /\ \E n \in 1..MaxIter : queryIterations' = n
    /\ phase' = "QueriesAgain"
    /\ step' = 0
    /\ UNCHANGED <<awaiting, userCount, fault, lat, down, flap, budget, now, start,
                   results, invocations, store, outcome, response, durations, stats,
                   again, load, streams, sideVars>>

\* measureTime takes the start time and invokes fn
AgainCall ==
    /\ phase = "QueriesAgain"
    /\ ~awaiting
    /\ step < QueryCalls(queryIterations)
    /\ start' = now
    /\ invocations' = invocations + 1
    /\ awaiting' = TRUE
    /\ UNCHANGED <<phase, step, envVars, now, results, store, outcome, response,
                   durations, stats, reruns, again, load, streams, sideVars>>

\* fn settles: measureTime pushes the record to this.results
AgainSettle ==
    /\ phase = "QueriesAgain"
    /\ awaiting
    /\ now' = now + lat[QueryCall(step, queryIterations).approach]
    /\ LET call == QueryCall(step, queryIterations)
       IN  \/ /\ ~IsDown(call)
              /\ results' = Push(results,
                     SuccessRecord(call, Elapsed(start, now'),
                                   BackendResult(call, store)))
              /\ store' = Effect(call, store)
           \/ /\ IsDown(call)
              /\ results' = Push(results,
                     FailureRecord(call, Elapsed(start, now'), fault))
              /\ UNCHANGED store
    /\ kept' = Seen(kept, results')
    /\ awaiting' = FALSE
    /\ step' = step + 1
    /\ UNCHANGED <<phase, envVars, start, invocations, outcome, response, durations,
                   stats, reruns, again, load, streams, runs, logs>>

\* runQueryBenchmarks returns to the caller
AgainReturn ==
    /\ phase = "QueriesAgain"
    /\ ~awaiting
    /\ step = QueryCalls(queryIterations)
    /\ phase' = "Reported"
    /\ UNCHANGED <<step, awaiting, envVars, now, start, results, invocations, store,
                   outcome, response, durations, stats, reruns, again, load, streams,
                   sideVars>>

NextHeld ==
    \/ Request
    \/ WarmupCall
    \/ WarmupSettle
    \/ SeedCall
    \/ SeedSettle
    \/ MeasureCall
    \/ MeasureSettle
    \/ QueriesReturn
    \/ CleanupCall
    \/ CleanupSettle
    \/ Hold
    \/ ClearAgain
    \/ QueriesAgain
    \/ AgainCall
    \/ AgainSettle
    \/ AgainReturn
    \/ Rerun

SpecHeld == InitHeld /\ [][NextHeld]_vars

\* ------------------------------------------------- two runs that overlap
\* runFullBenchmark suspends at every backend call, so a second call of it
\* can start while the first is suspended: on the same instance when a caller
\* does not await the first, on an instance of its own for each request of
\* POST /benchmark/run.  The database is the same in both cases.  SpecOverlap
\* follows two such runs of the same request.  Between two awaits a run
\* executes alone; the backends answer after their latency, and two answers
\* due at the same time arrive in the order of their calls.

\* the backend calls runFullBenchmark(count, n) awaits, in order
Awaits(count, n) ==
    [k \in 1..(2 * WarmupRounds) |->
        [phase |-> "Warmup", approach |-> WarmupApproach(k - 1), what |-> Absent]]
    \o [k \in 1..Len(SeedPlan(count)) |->
        [phase |-> "Seeding", approach |-> SeedPlan(count)[k].approach,
         what |-> Some(SeedPlan(count)[k])]]
    \o [k \in 1..QueryCalls(n) |->
        [phase |-> "QuerySuites", approach |-> QueryCall(k - 1, n).approach,
         what |-> Some(QueryCall(k - 1, n))]]
    \o [k \in 1..Len(CleanPlan) |->
        [phase |-> "Cleanup", approach |-> CleanPlan[k].approach,
         what |-> Some(CleanPlan[k])]]

\* the rows an INSERT of seedData writes whose id is in the table already
Collisions(stmt, st) ==
    CASE stmt.op = "insertUsers" ->
            {SeedUser(j) : j \in stmt.from..(stmt.to - 1)} \cap st.users
      [] stmt.op = "insertSessions" ->
            {s \in st.sessions :
                \E j \in stmt.from..(stmt.to - 1) : s.id = SeedSession(j).id}
      [] OTHER -> {}

\* the Bulk INSERT of run r: its ids carry Date.now(), which tells the rows of
\* one run from those of the other
Stamped(call, r) ==
    [call EXCEPT !.iteration = @ + (r - 1) * queryIterations]

\* the call in flight of run r, and the time its answer is due
InFlightOf(r) == Awaits(userCount, queryIterations)[runs[r].at]
DueOf(r) == runs[r].start + lat[InFlightOf(r).approach]

Suspended(r) == runs[r].outcome.kind = "pending"

\* the answer to the call of run r is the next to arrive
NextToArrive(r) ==
    \A s \in DOMAIN runs :
        (s # r /\ Suspended(s)) =>
            \/ DueOf(r) < DueOf(s)
            \/ DueOf(r) = DueOf(s) /\ runs[r].ticket < runs[s].ticket

\* the place of the next call in the order of the calls
NextTicket ==
    IF runs = <<>> THEN 1
    ELSE 1 + CHOOSE t \in {runs[s].ticket : s \in DOMAIN runs} :
                 \A s \in DOMAIN runs : runs[s].ticket <= t

\* no instance has been constructed, the database is empty
InitOverlap ==
    /\ Fresh
    /\ userCount = MaxUsers
    /\ queryIterations \in 0..MaxIter
    /\ down = {}
    /\ flap = {}
    /\ budget = 0
    /\ fault = CHOOSE e \in Errors : e.isError
    /\ lat \in [Approaches -> 0..MaxLat]
    /\ store = EmptyStore
    /\ durations = <<>>
    /\ stats = Absent

\* runFullBenchmark is called, on an instance constructed for it (results = [])
\* or on the instance of the run in progress: it clears the log of its
\* instance and sends the first SELECT 1 of the warmup
Begin ==
    /\ Len(runs) < 2
    /\ runs # <<>> => Suspended(1)
    /\ \E inst \in 1..(Len(logs) + 1) :
           /\ logs' = IF inst > Len(logs) THEN Append(logs, clearResults)
                      ELSE [logs EXCEPT ![inst] = clearResults]
           /\ runs' = Append(runs,
                  [inst |-> inst, at |-> 1, start |-> now, ticket |-> NextTicket,
                   own |-> <<>>, outcome |-> Pending])
    /\ UNCHANGED <<phase, step, awaiting, envVars, now, start, results, invocations,
                   store, outcome, response, durations, stats, reruns, again, load,
                   streams, kept>>

\* run r after the call in flight has settled at time t and measureTime has
\* left `log` in this.results: the run returns the report after the last
\* call, and sends the next call otherwise
Resumed(r, t, log) ==
    LET pushed == SubSeq(log, Len(logs[runs[r].inst]) + 1, Len(log))
        run == [runs[r] EXCEPT !.own = @ \o pushed]
    IN  IF run.at = Len(Awaits(userCount, queryIterations))
        THEN [run EXCEPT !.outcome = [kind |-> "resolved",
                                      report |-> Some(generateReport(log)),
                                      error |-> Absent]]
        ELSE [run EXCEPT !.at = @ + 1, !.start = t, !.ticket = NextTicket]

\* run r after the call in flight has rejected outside measureTime
Thrown(r) ==
    [runs[r] EXCEPT !.outcome =
        [kind |-> "rejected", report |-> Absent, error |-> Some(fault)]]

\* the answer to the call in flight of run r arrives: a SELECT 1 of the
\* warmup, a statement of seedData or cleanDatabase, which is executed or,
\* for an INSERT of rows whose ids are in the table, may be rejected, or a
\* measured call, whose record measureTime pushes
Arrive(r) ==
    /\ r \in DOMAIN runs
    /\ Suspended(r)
    /\ NextToArrive(r)
    /\ now' = DueOf(r)
    /\ \E rejected \in BOOLEAN :
        LET item == InFlightOf(r)
            inst == runs[r].inst
        IN  /\ rejected => /\ item.phase \in {"Seeding", "Cleanup"}
                           /\ Collisions(item.what[1], store) # {}
            /\ logs' = IF item.phase = "QuerySuites"
                       THEN [logs EXCEPT ![inst] =
                               Push(@, SuccessRecord(item.what[1],
                                        Elapsed(runs[r].start, now'),
                                        BackendResult(item.what[1], store)))]
                       ELSE logs
            /\ store' = CASE rejected \/ item.phase = "Warmup" -> store
                          [] item.phase = "QuerySuites" ->
                                Effect(Stamped(item.what[1], r), store)
                          [] OTHER -> Execute(item.what[1], store)
            /\ runs' = [runs EXCEPT ![r] =
                           IF rejected THEN Thrown(r)
                           ELSE Resumed(r, now', logs'[inst])]
    /\ UNCHANGED <<phase, step, awaiting, envVars, start, results, invocations,
                   outcome, response, durations, stats, reruns, again, load,
                   streams, kept>>

NextOverlap ==
    \/ Begin
    \/ \E r \in 1..2 : Arrive(r)

SpecOverlap == InitOverlap /\ [][NextOverlap]_vars

\* ---------------------------------------- concurrent streams of measureTime
\* The concurrent load loop: `concurrency` streams are launched together on
\* one instance, each makes `iterations` sequential measureTime calls to one
\* backend, and the loop awaits them jointly.  Every await is a point where
\* another stream may run; what measureTime does between two awaits runs
\* without interruption.  The streams are told apart by nothing in the log,
\* so they are held as a bag of stream states.

\* the loads of the model: the concurrency and the iterations vary one at a
\* time
LoadInputs ==
    {<<k, MaxCalls>> : k \in 1..MaxStreams}
    \cup {<<MaxStreams, m>> : m \in 0..MaxCalls}

\* the measured call of a stream
LoadCall(approach) ==
    [operation |-> <<"concurrent_load", 0>>,
     queryType |-> "Simple SELECT",
     sqlQuery |-> 1,
     approach |-> approach,
     iteration |-> 0]

\* a stream: the calls it has completed, whether one is in flight, and the
\* start that measureTime took for it
Stream(done, inFlight, startTime) ==
    [done |-> done, awaiting |-> inFlight, start |-> startTime]

\* the bag with one stream replaced by its next state
Advance(bag, from, to) == (bag (-) SetToBag({from})) (+) SetToBag({to})

InitStreams ==
    /\ Fresh
    /\ userCount = 0
    /\ queryIterations = 0
    /\ fault = CHOOSE e \in Errors : e.isError
    /\ lat = [a \in Approaches |-> 0]
    /\ down \in {{}} \cup {{Shape(QueryTypes[t], a) : t \in DOMAIN QueryTypes} :
                             a \in Approaches}
    /\ flap = {}
    /\ budget = 0
    /\ store = EmptyStore
    /\ durations = <<>>
    /\ stats = Absent

\* the streams are launched together: each runs up to its first await, the
\* backend call of its first measureTime
Launch ==
    /\ phase = "Idle"
    /\ \E input \in LoadInputs, a \in Approaches :
          /\ \A shape \in down : shape.approach = a
          /\ load' = Some([concurrency |-> input[1], iterations |-> input[2],
                           approach |-> a])
          /\ streams' = [s \in {Stream(0, input[2] > 0, now)} |-> input[1]]
          /\ invocations' = IF input[2] > 0 THEN input[1] ELSE 0
    /\ phase' = "ConcurrentLoad"
    /\ UNCHANGED <<step, awaiting, envVars, now, start, results, store, outcome,
                   response, durations, stats, reruns, again, sideVars>>

\* a stream goes on to its next call: measureTime takes its start and
\* invokes its fn
StreamCall ==
    /\ phase = "ConcurrentLoad"
    /\ \E s \in BagToSet(streams) :
          /\ ~s.awaiting
          /\ s.done < load[1].iterations
          /\ streams' = Advance(streams, s, Stream(s.done, TRUE, now))
    /\ invocations' = invocations + 1
    /\ UNCHANGED <<phase, step, awaiting, envVars, now, start, results, store,
                   outcome, response, durations, stats, reruns, again, load,
                   sideVars>>

\* the backend call of a stream settles: its measureTime appends the record
\* of the try branch or of the catch branch and returns it
StreamSettle ==
    /\ phase = "ConcurrentLoad"
    /\ now' = now + lat[load[1].approach]
    /\ \E s \in BagToSet(streams) :
          /\ s.awaiting
          /\ LET call == LoadCall(load[1].approach)
             IN  \/ /\ ~IsDown(call)
                    /\ results' = Push(results,
                           SuccessRecord(call, Elapsed(s.start, now'),
                                         BackendResult(call, store)))
                 \/ /\ IsDown(call)
                    /\ results' = Push(results,
                           FailureRecord(call, Elapsed(s.start, now'), fault))
          /\ streams' = Advance(streams, s, Stream(s.done + 1, FALSE, 0))
    /\ UNCHANGED <<phase, step, awaiting, envVars, start, invocations, store,
                   outcome, response, durations, stats, reruns, again, load,
                   sideVars>>

\* every stream has returned: the joint await of the loop resumes
Join ==
    /\ phase = "ConcurrentLoad"
    /\ \A s \in BagToSet(streams) :
          ~s.awaiting /\ s.done = load[1].iterations
    /\ phase' = "Joined"
    /\ UNCHANGED <<step, awaiting, envVars, now, start, results, invocations,
                   store, outcome, response, durations, stats, reruns, again,
                   load, streams, sideVars>>

NextStreams ==
    \/ Launch
    \/ StreamCall
    \/ StreamSettle
    \/ Join

SpecStreams == InitStreams /\ [][NextStreams]_vars

\* =================================================================== claims
InFlight == IF phase = "QuerySuites" /\ awaiting THEN 1 ELSE 0

Failed(r) == ~r.success

\* runQueryBenchmarks has made all its calls
SuiteDone ==
    \/ phase \in {"Cleanup", "Reported"}
    \/ phase = "QuerySuites" /\ step = QueryCalls(queryIterations)

\* C1: every call of measureTime invokes its operation once and appends one
\* record, on success and on failure alike, with a duration that is not
\* negative: the log holds one record per completed call, the operation has
\* been invoked once per call begun, and no record has a negative duration.
C1_OneRecordPerCall ==
    /\ Len(results) = invocations - InFlight
    /\ phase = "QuerySuites" => invocations = step + InFlight
    /\ \A i \in DOMAIN results : results[i].duration >= 0

\* C1 witness: a call that succeeded and a call that failed have both been
\* recorded, one of them after time had passed.
C1_Witness ==
    /\ \E i \in DOMAIN results : results[i].success
    /\ \E i \in DOMAIN results : Failed(results[i]) /\ results[i].duration > 0

\* the text measureTime records for the run's fault
FaultText == IF fault.isError THEN <<"D1_ERROR">> ELSE <<"5", "0", "3">>

\* C2: measureTime never rejects. A failed operation leaves a record with
\* success = false and the error's message text, and the suite makes all its
\* remaining calls: a run rejects before the first measured call or after the
\* last one, never between them.
C2_FailureRecorded ==
    /\ \A i \in DOMAIN results :
          Failed(results[i]) => results[i].error = Some(FaultText)
    /\ outcome.kind = "rejected" =>
          Len(results) \in {0, QueryCalls(queryIterations)}
    /\ SuiteDone => Len(results) = QueryCalls(queryIterations)
    /\ phase = "QuerySuites" /\ ~awaiting /\ step < QueryCalls(queryIterations)
          => ENABLED MeasureCall

\* C2 witness: the first measured operation failed with a value that is not
\* an Error, and the suite still made all its calls.
C2_Witness ==
    /\ SuiteDone
    /\ Len(results) > 1
    /\ Failed(results[1])
    /\ ~fault.isError

\* the records of one query type and one backend
SamplesOf(qt, approach) ==
    Len(SelectSeq(results, LAMBDA r : r.queryType = qt /\ r.approach = approach))

\* C3: runQueryBenchmarks(n) appends n binding samples and n http samples
\* for each of the six query types, 12n in all, whatever succeeds or fails.
C3_SampleCounts ==
    /\ \A t \in DOMAIN QueryTypes : \A a \in Approaches :
          SamplesOf(QueryTypes[t], a) <= queryIterations
    /\ SuiteDone =>
          /\ Len(results) = 12 * queryIterations
          /\ \A t \in DOMAIN QueryTypes : \A a \in Approaches :
                SamplesOf(QueryTypes[t], a) = queryIterations

\* C3 witness: a suite of five iterations is complete, 60 samples with a
\* failure and a success among them.
C3_Witness ==
    /\ SuiteDone
    /\ queryIterations = 5
    /\ Len(results) = 60
    /\ \E i \in DOMAIN results : Failed(results[i])
    /\ \E i \in DOMAIN results : results[i].success

\* the report runFullBenchmark returned
Report == outcome.report[1]
HasReport == outcome.kind = "resolved"

\* C4: the overall speedup ratios are 0 whenever the binding has no
\* successful sample, whatever http recorded.
C4_ZeroWithoutBindingSuccess ==
    HasReport /\ Len(Successful(Report.results, "binding")) = 0 =>
        /\ Report.summary.speedupFactor = Zero
        /\ Report.summary.medianSpeedup = Zero
        /\ Report.summary.p95Speedup = Zero

\* the ratio the claim C5 describes: http / binding, 0 for a zero divisor
GuardedRatio(httpStat, bindingStat) ==
    IF bindingStat = Zero THEN Zero ELSE JsDiv(httpStat, bindingStat)

\* C5: every ratio of a report, overall and per query type, is the http
\* statistic divided by the binding statistic, 0 when the binding statistic
\* is 0, and never NaN or infinite.
C5_RatiosFinite ==
    HasReport =>
        /\ Report.summary.speedupFactor =
              GuardedRatio(Report.summary.http.avg, Report.summary.binding.avg)
        /\ Report.summary.medianSpeedup =
              GuardedRatio(Report.summary.http.median, Report.summary.binding.median)
        /\ Report.summary.p95Speedup =
              GuardedRatio(Report.summary.http.p95, Report.summary.binding.p95)
        /\ \A qt \in DOMAIN Report.queryTypeResults :
              /\ Report.queryTypeResults[qt].speedup =
                    GuardedRatio(Report.queryTypeResults[qt].http.avg,
                                 Report.queryTypeResults[qt].binding.avg)
              /\ IsFinite(Report.queryTypeResults[qt].speedup)
        /\ IsFinite(Report.summary.speedupFactor)
        /\ IsFinite(Report.summary.medianSpeedup)
        /\ IsFinite(Report.summary.p95Speedup)

\* C6: on a non-empty input calculateStats returns min <= p95 <= p99 <= max
\* and min <= median <= max.
C6_StatsOrdered ==
    stats # Absent /\ Len(durations) > 0 =>
        /\ JsLeq(stats[1].min, stats[1].p95)
        /\ JsLeq(stats[1].p95, stats[1].p99)
        /\ JsLeq(stats[1].p99, stats[1].max)
        /\ JsLeq(stats[1].min, stats[1].median)
        /\ JsLeq(stats[1].median, stats[1].max)

\* backend f failed on every attempt of query type qt and the other backend
\* succeeded on every one of its attempts of qt
FailsAll(log, qt, f) ==
    /\ Len(AttemptedForType(log, qt, f)) > 0
    /\ Len(SuccessfulForType(log, qt, f)) = 0
    /\ \A g \in Approaches \ {f} :
          /\ Len(AttemptedForType(log, qt, g)) > 0
          /\ Len(SuccessfulForType(log, qt, g)) = Len(AttemptedForType(log, qt, g))

\* the durations of the successful samples of a backend outside one query type
DurationsOutside(log, qt, f) ==
    DurationsOf(SelectSeq(log, LAMBDA r :
        r.approach = f /\ r.success /\ r.queryType # qt))

\* the seven duration statistics of a summary
StatsPart(summary) ==
    [avg |-> summary.avg, median |-> summary.median, p95 |-> summary.p95,
     p99 |-> summary.p99, min |-> summary.min, max |-> summary.max,
     stdDev |-> summary.stdDev]

\* C7 as claimed: when one backend fails on every attempt of a query type and
\* the other succeeds on all of them, the report's entry for that query type
\* shows a success rate below 1 for the failing backend and of 1 for the
\* other.
C7_AsClaimed ==
    HasReport =>
        \A t \in DOMAIN QueryTypes : \A f \in Approaches :
            FailsAll(Report.results, QueryTypes[t], f) =>
                /\ QueryTypes[t] \in DOMAIN Report.queryTypeResults
                /\ Report.queryTypeResults[QueryTypes[t]][f].successRate # One
                /\ \A g \in Approaches \ {f} :
                      Report.queryTypeResults[QueryTypes[t]][g].successRate = One

\* C7 amended: in that case the report has no entry for the query type; the
\* overall summary shows a success rate below 1 for the failing backend,
\* whose duration statistics are those of its successful samples of the
\* other query types, and a success rate of 1 for the other backend exactly
\* when none of its samples failed.
C7_FailingTypeOmitted ==
    HasReport =>
        \A t \in DOMAIN QueryTypes : \A f \in Approaches :
            FailsAll(Report.results, QueryTypes[t], f) =>
                /\ QueryTypes[t] \notin DOMAIN Report.queryTypeResults
                /\ Report.summary[f].successRate # One
                /\ JsLeq(Report.summary[f].successRate, One)
                /\ StatsPart(Report.summary[f]) =
                      calculateStats(DurationsOutside(Report.results, QueryTypes[t], f))
                /\ \A g \in Approaches \ {f} :
                      Report.summary[g].successRate = One
                          <=> Len(SelectSeq(Report.results,
                                    LAMBDA r : r.approach = g /\ Failed(r))) = 0

\* C7 witness: a report of a run of several iterations in which the binding
\* failed on every Simple SELECT, after time had passed, and succeeded on the
\* later queries, while http succeeded on every query.
C7_Witness ==
    /\ HasReport
    /\ queryIterations > 1
    /\ FailsAll(Report.results, QueryTypes[1], "binding")
    /\ Report.results[1].duration > 0
    /\ Report.summary.binding.totalOperations > 1
    /\ Report.summary.http.successRate = One
    /\ Report.summary.binding.successRate # Zero

\* C8: no failure of a backend call in the warmup or in the query suites
\* makes runFullBenchmark reject: a run rejects only in seeding or cleaning.
C8_NoEscalation ==
    outcome.kind = "rejected" => phase \in {"Seeding", "Cleanup"}

\* C9: when a binding call of seeding or cleaning rejects, runFullBenchmark
\* rejects with that error and yields no report, and the handler answers 500
\* with success = false and the error message, without a report; a report is
\* returned only by a run that went through its last phase.
C9_SetupFailureSurfaces ==
    /\ outcome.kind = "rejected" =>
          /\ outcome.report = Absent
          /\ outcome.error = Some(fault)
    /\ HasReport => phase = "Reported"
    /\ response # Absent /\ outcome.kind = "rejected" =>
          response[1] = [status |-> 500, success |-> FALSE, report |-> Absent,
                         error |-> Some(FaultText)]
    /\ response # Absent /\ response[1].report # Absent => HasReport

\* C9 witness: the last DELETE of the cleanup was rejected with a value that
\* is not an Error after every sample had been recorded, and the handler has
\* answered.
C9_Witness ==
    /\ outcome.kind = "rejected"
    /\ phase = "Cleanup"
    /\ step = 1
    /\ ~fault.isError
    /\ queryIterations > 0
    /\ Len(results) = QueryCalls(queryIterations)
    /\ response # Absent

ZeroStats ==
    [avg |-> Zero, median |-> Zero, p95 |-> Zero, p99 |-> Zero, min |-> Zero,
     max |-> Zero, stdDev |-> Zero, totalOperations |-> 0, successRate |-> Zero]

\* C10: a run with zero iterations does not fail in its query phase, and its
\* report has no results, all-zero statistics and success rate 0 for both
\* backends, three speedup ratios of 0 and no per-category entry.
C10_ZeroIterations ==
    queryIterations = 0 =>
        /\ phase = "QuerySuites" => Running /\ ENABLED QueriesReturn
        /\ HasReport =>
              /\ Report.results = <<>>
              /\ DOMAIN Report.queryTypeResults = {}
              /\ Report.summary =
                    [binding |-> ZeroStats, http |-> ZeroStats,
                     speedupFactor |-> Zero, medianSpeedup |-> Zero,
                     p95Speedup |-> Zero]

\* C10 witness: a run of zero iterations over a seeded store has returned its
\* report and the handler has answered 200.
C10_Witness ==
    /\ queryIterations = 0
    /\ userCount > 0
    /\ HasReport
    /\ response # Absent
    /\ response[1].status = 200

\* the record of the k-th measured call of a run of n iterations is at
\* position k of the log
OfThisRun(log, n) ==
    \A i \in DOMAIN log :
        /\ log[i].operation = QueryCall(i - 1, n).operation
        /\ log[i].queryType = QueryCall(i - 1, n).queryType
        /\ log[i].approach = QueryCall(i - 1, n).approach

\* C11: runFullBenchmark clears the log before its first phase: through the
\* warmup and the seeding of every run the log is empty, during the query
\* suites it holds the records of this run's calls and nothing else, and the
\* report of a run holds the 12n records of that run, whatever an earlier run
\* on the instance had recorded.
C11_NoLeakage ==
    /\ phase \in {"Warmup", "Seeding"} => results = <<>>
    /\ phase = "QuerySuites" => Len(results) = step
    /\ OfThisRun(results, queryIterations)
    /\ HasReport =>
          /\ Len(Report.results) = QueryCalls(queryIterations)
          /\ OfThisRun(Report.results, queryIterations)

\* C11 witness: a later run of no iteration has returned its report, empty,
\* on an instance whose earlier run had recorded samples.
C11_Witness ==
    /\ reruns > 0
    /\ HasReport
    /\ invocations > 0
    /\ queryIterations = 0
    /\ Report.results = <<>>

\* C12: a run goes through its phases in the order Idle, Warmup, Seeding,
\* QuerySuites, Cleanup, Reported: every change of phase leads to the phase
\* that follows, and it happens when the last call of the phase left has
\* settled, with no call in flight afterwards.
C12_PhaseOrder ==
    [][phase' # phase =>
        /\ <<phase, phase'>> \in
              {<<"Idle", "Warmup">>, <<"Warmup", "Seeding">>,
               <<"Seeding", "QuerySuites">>, <<"QuerySuites", "Cleanup">>,
               <<"Cleanup", "Reported">>}
        /\ phase = "Warmup" => awaiting /\ step = 2 * WarmupRounds - 1
        /\ phase = "Seeding" => awaiting /\ step = Len(SeedPlan(userCount)) - 1
        /\ phase = "QuerySuites" =>
              ~awaiting /\ Len(results) = 12 * queryIterations
        /\ phase = "Cleanup" => awaiting /\ step = Len(CleanPlan) - 1
        /\ ~awaiting'
        /\ step' = 0 \/ phase' = "Reported"]_vars

\* C12 witness: a run over a seeded store with measured queries has reached
\* its last phase.
C12_Witness ==
    /\ phase = "Reported"
    /\ userCount > 0
    /\ queryIterations > 0
    /\ Len(results) = 12 * queryIterations

AttemptsAt(log, a) == {i \in DOMAIN log : log[i].approach = a}
SuccessesAt(log, a) == {i \in DOMAIN log : log[i].approach = a /\ log[i].success}

\* C14: in the overall summary the success rate of a backend is its number of
\* successful samples divided by its number of attempted samples, between 0
\* and 1, and 0 when it has no attempt; its duration statistics are those of
\* its successful samples only.
C14_SummaryRates ==
    HasReport =>
        \A a \in Approaches :
            LET attempts == Cardinality(AttemptsAt(Report.results, a))
                successes == Cardinality(SuccessesAt(Report.results, a))
                rate == Report.summary[a].successRate
            IN  /\ attempts = 0 => rate = Zero
                /\ attempts > 0 => rate = JsDiv(Whole(successes), Whole(attempts))
                /\ JsLeq(Zero, rate) /\ JsLeq(rate, One)
                /\ StatsPart(Report.summary[a]) =
                      calculateStats(DurationsOf(SelectSeq(Report.results,
                          LAMBDA r : r.approach = a /\ r.success)))

\* C14 witness: a report in which the binding has failed and successful
\* samples that took time, so that its rate is strictly between 0 and 1.
C14_Witness ==
    /\ HasReport
    /\ Cardinality(SuccessesAt(Report.results, "binding")) > 0
    /\ Cardinality(SuccessesAt(Report.results, "binding"))
          < Cardinality(AttemptsAt(Report.results, "binding"))
    /\ \E i \in AttemptsAt(Report.results, "binding") :
          Report.results[i].duration > 0
    /\ Report.summary.binding.successRate \notin {Zero, One}

\* backend a has a successful sample of query type qt
HasSuccess(log, qt, a) ==
    \E i \in DOMAIN log :
        log[i].queryType = qt /\ log[i].approach = a /\ log[i].success

\* C15: a query type has an entry in the per-category breakdown exactly when
\* both backends have a successful sample of that type.
C15_EntryIffBoth ==
    HasReport =>
        /\ DOMAIN Report.queryTypeResults \subseteq
              {QueryTypes[t] : t \in DOMAIN QueryTypes}
        /\ \A t \in DOMAIN QueryTypes :
              QueryTypes[t] \in DOMAIN Report.queryTypeResults
                  <=> /\ HasSuccess(Report.results, QueryTypes[t], "binding")
                      /\ HasSuccess(Report.results, QueryTypes[t], "http")

\* C15 witness: a report with an entry for some query types and none for a
\* query type on which http succeeded and the binding did not.
C15_Witness ==
    /\ HasReport
    /\ DOMAIN Report.queryTypeResults # {}
    /\ \E t \in DOMAIN QueryTypes :
          /\ QueryTypes[t] \notin DOMAIN Report.queryTypeResults
          /\ HasSuccess(Report.results, QueryTypes[t], "http")
          /\ ~HasSuccess(Report.results, QueryTypes[t], "binding")

\* C16: calculateStats on an empty sequence returns avg, median, p95, p99,
\* min, max and stdDev all equal to 0.
C16_EmptyStatsZero ==
    stats # Absent /\ durations = <<>> =>
        /\ DOMAIN stats[1] = {"avg", "median", "p95", "p99", "min", "max", "stdDev"}
        /\ \A f \in DOMAIN stats[1] : stats[1][f] = Whole(0)

\* C16 witness: calculateStats has returned for the empty sequence.
C16_Witness == stats # Absent /\ durations = <<>>

\* C17: calculateStats is order-invariant: the statistics of a sequence are
\* those of its ascending permutation, so that any two permutations of each
\* other give identical statistics.
C17_OrderInvariant ==
    stats # Absent => stats[1] = calculateStats(SortAsc(durations))

\* the calls the streams of a bag have completed
RECURSIVE DoneOver(_, _)
DoneOver(states, bag) ==
    IF states = {}
    THEN 0
    ELSE LET s == CHOOSE x \in states : TRUE
         IN  s.done * CopiesIn(s, bag) + DoneOver(states \ {s}, bag)

\* the calls of the streams of a bag that are in flight
RECURSIVE FlyingOver(_, _)
FlyingOver(states, bag) ==
    IF states = {}
    THEN 0
    ELSE LET s == CHOOSE x \in states : TRUE
         IN  (IF s.awaiting THEN CopiesIn(s, bag) ELSE 0)
                + FlyingOver(states \ {s}, bag)

\* C18: k streams of m sequential measureTime calls each, interleaved on one
\* instance: the log holds one record per completed call of the load's
\* backend, every launched call is completed or in flight, and once the
\* streams are joined the log holds exactly k * m records, one per launched
\* call, whatever the interleaving.
C18_OnePerLaunchedCall ==
    load # Absent =>
        LET k == load[1].concurrency
            m == load[1].iterations
            completed == DoneOver(BagToSet(streams), streams)
            flying == FlyingOver(BagToSet(streams), streams)
        IN  /\ BagCardinality(streams) = k
            /\ Len(results) = completed
            /\ invocations = completed + flying
            /\ \A i \in DOMAIN results : results[i].approach = load[1].approach
            /\ phase = "Joined" =>
                  /\ Len(results) = k * m
                  /\ invocations = k * m

\* C18 witness: 4 streams of 10 calls have been joined with 40 records in
\* the log.
C18_Witness ==
    /\ phase = "Joined"
    /\ load # Absent
    /\ load[1].concurrency = 4
    /\ load[1].iterations = 10
    /\ Len(results) = 40

\* C19: once runFullBenchmark has returned a report the store holds no rows
\* of the users table and none of the sessions table: the rows the run
\* seeded and the rows its Bulk INSERT samples added are deleted.
C19_StoreEmptyAfterReport ==
    HasReport => store.users = {} /\ store.sessions = {}

\* C19 witness: a report of a run that seeded users and whose Bulk INSERT
\* succeeded through both backends.
C19_Witness ==
    /\ HasReport
    /\ userCount > 0
    /\ \A a \in Approaches :
          \E i \in DOMAIN results :
              /\ results[i].queryType = "Bulk INSERT"
              /\ results[i].approach = a
              /\ results[i].success

\* the 0-based index, replaced by n - 1 when it runs past the end
Clamped(index, n) == IF index > n - 1 THEN n - 1 ELSE index

\* C20: for a non-empty input of n durations p95 is the element at index
\* floor(n * 0.95) and p99 the element at index floor(n * 0.99) of the
\* ascending durations, the index replaced by n - 1 only when it runs past
\* the end, also when that element is 0.
C20_PercentileIndex ==
    stats # Absent /\ durations # <<>> =>
        LET n == Len(durations)
            sorted == SortAsc(durations)
        IN  /\ stats[1].p95 = Whole(sorted[Clamped((n * 95) \div 100, n) + 1])
            /\ stats[1].p99 = Whole(sorted[Clamped((n * 99) \div 100, n) + 1])

\* C21: in every record of the log the error message is present if and only
\* if success is false, and a failed record carries no affected-record count.
C21_ErrorIffFailed ==
    \A i \in DOMAIN results :
        /\ (results[i].error # Absent) <=> ~results[i].success
        /\ ~results[i].success => results[i].recordsAffected = Absent

\* C21 witness: the log holds a failed record and a successful one.
C21_Witness ==
    /\ \E i \in DOMAIN results : ~results[i].success
    /\ \E i \in DOMAIN results :
          results[i].success /\ results[i].recordsAffected # Absent

\* C22: during runQueryBenchmarks at most one backend call is in flight, and
\* the log is in invocation order: record k (from 0) is of query type
\* number k div 2n + 1 in the fixed order of the six types and of iteration
\* (k mod 2n) div 2, the binding sample at even k, and the record after it is
\* the http sample with the same operation label, query type and query text.
C22_SequentialInOrder ==
    /\ invocations - Len(results) \in {0, 1}
    /\ invocations - Len(results) = 1 <=> phase = "QuerySuites" /\ awaiting
    /\ \A k \in 0..(Len(results) - 1) :
          LET n == queryIterations
              r == results[k + 1]
          IN  /\ r.queryType =
                    <<"Simple SELECT", "Filtered SELECT", "JOIN Operations",
                      "Aggregation", "Bulk INSERT", "Bulk SELECT">>[k \div (2 * n) + 1]
              /\ r.operation[2] = (k % (2 * n)) \div 2
              /\ r.approach = (IF k % 2 = 0 THEN "binding" ELSE "http")
              /\ k % 2 = 1 =>
                    /\ r.operation = results[k].operation
                    /\ r.queryType = results[k].queryType
                    /\ r.sqlQuery = results[k].sqlQuery

\* C22 witness: a suite of several iterations has recorded all its samples,
\* a failed one among them.
C22_Witness ==
    /\ queryIterations > 1
    /\ Len(results) = 12 * queryIterations
    /\ \E i \in DOMAIN results : ~results[i].success

\* C23: runWarmup, seedData and cleanDatabase leave the log unchanged: no
\* step taken in the warmup, seeding or cleanup phase, by a call that
\* succeeded or by one that failed, changes the log, and every record of a
\* report is of one of the six query types.
C23_SetupUnrecorded ==
    [][/\ phase \in {"Warmup", "Seeding", "Cleanup"} => results' = results
       /\ outcome'.kind = "resolved" =>
             \A i \in DOMAIN outcome'.report[1].results :
                 \E t \in DOMAIN QueryTypes :
                     outcome'.report[1].results[i].queryType = QueryTypes[t]]_vars

\* C23 witness: a report of a run that seeded rows and recorded samples.
C23_Witness ==
    /\ outcome.kind = "resolved"
    /\ userCount > 0
    /\ outcome.report[1].results # <<>>

\* C24: once seedData(n) has completed the store holds exactly the n users
\* user_0 .. user_(n-1) and floor(0.3 * n) sessions, whatever it held before;
\* every statement of seedData goes through the binding, and no statement
\* inserts more than 100 rows.
C24_SeededExactly ==
    /\ [](phase = "QuerySuites" /\ step = 0 /\ ~awaiting =>
            /\ Cardinality(store.users) = userCount
            /\ Cardinality(store.sessions) = (3 * userCount) \div 10
            /\ \A u \in store.users : u.src = "user" /\ u.n \in 0..(userCount - 1)
            /\ \A x \in store.sessions : x.id.src = "session")
    /\ [][phase = "Seeding" /\ awaiting =>
            /\ Cardinality(store'.users \ store.users) <= 100
            /\ Cardinality(store'.sessions \ store.sessions) <= 100
            /\ now' - now = lat["binding"]
            /\ SeedPlan(userCount)[step + 1].approach = "binding"]_vars

\* C24 witness: seedData has completed with more users and more sessions
\* than one statement inserts.
C24_Witness ==
    /\ phase = "QuerySuites"
    /\ step = 0
    /\ Cardinality(store.users) > 2 * BatchSize
    /\ Cardinality(store.sessions) > BatchSize

\* C26: in every StatsSummary of a report, the overall summary of a backend
\* and a per-category entry alike, totalOperations is the number of attempts,
\* successful and failed, of that backend in that partition.
C26_TotalIsAttempts ==
    HasReport =>
        /\ \A a \in Approaches :
              Report.summary[a].totalOperations = Len(Attempted(Report.results, a))
        /\ \A qt \in DOMAIN Report.queryTypeResults : \A a \in Approaches :
              Report.queryTypeResults[qt][a].totalOperations
                  = Len(AttemptedForType(Report.results, qt, a))

\* C30: during a single run every state of the store keeps referential
\* integrity: each sessions row names an existing users row.  Seeding inserts
\* all users before any session, session j names user j, and cleaning deletes
\* all sessions before any user.
C30_ReferentialIntegrity ==
    /\ \A x \in store.sessions : x.userId \in store.users
    /\ \A x \in store.sessions :
          x.id.src = "session" =>
              /\ x.userId = [src |-> "user", n |-> x.id.n]
              /\ x.id.n < (3 * userCount) \div 10
              /\ (3 * userCount) \div 10 <= userCount

\* C30 witness: the sessions of a seeding are in the store while the run
\* cleans up, its users still there.
C30_Witness ==
    /\ phase = "Cleanup"
    /\ \E x \in store.sessions : x.id.src = "session"
    /\ Cardinality(store.users) > userCount

\* C25: a run that has started eventually completes, by returning a report
\* or by rejecting, provided every backend call settles; and nothing but the
\* settling of the call in flight moves the run on: as long as the call is in
\* flight the phase, the step, the log and the outcome stay as they are.
C25_CompletesUnlessHung ==
    /\ (phase # "Idle") ~> (outcome.kind # "pending")
    /\ [][awaiting /\ awaiting' => UNCHANGED <<phase, step, results, outcome>>]_vars

\* C25 witness: a run has completed after time had passed in its backend
\* calls, a measured one having failed: it returned its report, or it rejected
\* in its last phase.
C25_Witness ==
    /\ now > 0
    /\ \E i \in DOMAIN results : ~results[i].success
    /\ \/ outcome.kind = "resolved"
       \/ outcome.kind = "rejected" /\ phase = "Cleanup"

\* C27: a report that has been returned is a snapshot: whatever its instance
\* does afterwards, its results list and its statistics stay as they were
\* when it was returned, and its summary counts the records of its results.
C27_ReportIsSnapshot ==
    /\ [][kept # Absent /\ kept' # Absent => kept'[1].report = kept[1].report]_vars
    /\ [](kept # Absent =>
            \A a \in Approaches :
                kept[1].report.summary[a].totalOperations
                    = Len(Attempted(kept[1].report.results, a)))

\* the rows seedData(userCount) has written
SeededRows ==
    [users |-> {SeedUser(j) : j \in 0..(userCount - 1)},
     sessions |-> {SeedSession(j) : j \in 0..(SessionCount(userCount) - 1)}]

SameInstance == Len(runs) = 2 /\ runs[1].inst = runs[2].inst

\* C28: when two runFullBenchmark calls on the same instance overlap, the
\* report each returns holds exactly the samples of its own run, in order.
C28_OwnSamplesOnly ==
    \A r \in DOMAIN runs :
        (SameInstance /\ runs[r].outcome.kind = "resolved") =>
            runs[r].outcome.report[1].results = runs[r].own

\* C29: when two POST /benchmark/run requests overlap, the rows a run has
\* seeded are in the shared store as long as the run is in its query suites.
C29_SeededRowsStay ==
    \A r \in DOMAIN runs :
        (/\ Len(runs) = 2
         /\ ~SameInstance
         /\ Suspended(r)
         /\ InFlightOf(r).phase = "QuerySuites") =>
            /\ SeededRows.users \subseteq store.users
            /\ SeededRows.sessions \subseteq store.sessions

====
